---------------------------- MODULE Spec2Model ----------------------------
(***************************************************************************)
(* Model of whisperx/vad.py: the three segment-construction routines       *)
(*   VADSegmentPipeline.merge_chunks  (ChunkPacker)                        *)
(*   Binarize.__call__                (ScoreBinarizer)                     *)
(*   merge_vad                        (IntervalMerger)                     *)
(* Times are integers (one unit = one frame step); scores are integer      *)
(* levels.  Each routine is a loop of its own, stepped one iteration per   *)
(* action; SpecPack, SpecBin and SpecVad run one routine each.             *)
(***************************************************************************)
EXTENDS Integers, Sequences, FiniteSets, TLC

\* ------------------------------------------------------------------ bounds
MaxSegs == 3
MaxTime == 3
MaxChunk == 3

MaxFrames == 6
MaxTracks == 2
MaxScore == 2
MaxPad == 1
MaxCollar == 2
MaxMinOn == 2
MaxMaxDuration == 1
MaxVad == 3

VARIABLES
    pc,               \* position in the routine that is running
    result,           \* "running", "returned", or the exception raised
    \* --- merge_chunks
    segments_list, chunk_size, seg_i,
    curr_start, curr_end, seg_idxs, speaker_idxs, merged_segments,
    \* --- Binarize.__call__
    self,             \* the Binarize object's fields
    num_frames, num_classes,
    k,                \* track of the outer loop (also merge_vad's index)
    k_scores,         \* the part of column k of scores.data read so far
    start, is_active, curr_scores, curr_timestamps, t,
    active,           \* the Annotation: (segment, track) -> label entries
    \* --- merge_vad
    vad_arr, args, active_segs

packVars == <<segments_list, chunk_size, seg_i, curr_start, curr_end,
              seg_idxs, speaker_idxs, merged_segments>>
binVars == <<self, num_frames, num_classes, k_scores, start, is_active,
             curr_scores, curr_timestamps, t>>
vadVars == <<vad_arr, args, active_segs>>
vars == <<pc, result, packVars, binVars, vadVars, k, active>>

\* value of a local that has not been assigned yet
Unbound == "unbound"

\* a routine that is not running keeps its variables at these values
PackIdle ==
    /\ segments_list = <<>> /\ chunk_size = 0 /\ seg_i = 0
    /\ curr_start = Unbound /\ curr_end = 0 /\ seg_idxs = <<>>
    /\ speaker_idxs = <<>> /\ merged_segments = <<>>

BinIdle ==
    /\ self = <<>> /\ num_frames = 0 /\ num_classes = 0 /\ k_scores = <<>>
    /\ start = Unbound /\ is_active = FALSE /\ curr_scores = <<>>
    /\ curr_timestamps = <<>> /\ t = <<>>

VadIdle ==
    /\ vad_arr = <<>> /\ args = <<>> /\ active_segs = <<>>

\* ------------------------------------------------------------ merge_chunks
Speakers == {"SPEAKER_00", "SPEAKER_01"}

\* the Segment(start, end, speaker) objects merge_chunks reads
SegmentX == [start : 0..MaxTime, end : 0..MaxTime, speaker : Speakers]

PackInputs ==
    UNION { [1..n -> {s \in SegmentX : s.start < s.end}] : n \in 0..MaxSegs }

ChunkSizes == -1..MaxChunk

InitPack ==
    /\ pc = "pack_assert"
    /\ result = "running"
    /\ segments_list \in PackInputs
    /\ chunk_size \in ChunkSizes
    /\ seg_i = 1
    /\ curr_start = Unbound
    /\ curr_end = 0
    /\ seg_idxs = <<>>
    /\ speaker_idxs = <<>>
    /\ merged_segments = <<>>
    /\ BinIdle /\ VadIdle /\ k = 0 /\ active = <<>>

\* variant: the chunk size test written with >= 0
PackPreconditionNonNegative == chunk_size >= 0 /\ segments_list # <<>>

\* the two assertions, in order
PackPrecondition == chunk_size > 0 /\ segments_list # <<>>

PackAssertFail ==
    /\ pc = "pack_assert"
    /\ ~PackPrecondition
    /\ pc' = "done"
    /\ result' = "AssertionError"
    /\ UNCHANGED <<packVars, binVars, vadVars, k, active>>

PackStart ==
    /\ pc = "pack_assert"
    /\ PackPrecondition
    /\ curr_start' = segments_list[1].start
    /\ pc' = "pack_loop"
    /\ UNCHANGED <<result, segments_list, chunk_size, seg_i, curr_end,
                   seg_idxs, speaker_idxs, merged_segments,
                   binVars, vadVars, k, active>>

\* variant: the test measures the next segment from its start
ShouldCloseByStart(seg) ==
    seg.start - curr_start > chunk_size /\ curr_end - curr_start > 0

\* the test that closes the chunk in progress before seg is added
ShouldClose(seg) ==
    seg.end - curr_start > chunk_size /\ curr_end - curr_start > 0

\* the record appended to merged_segments
ChunkRecord == [start |-> curr_start, end |-> curr_end, segments |-> seg_idxs]

\* variant: the accumulators are not emptied
KeepIdxs(idxs) == idxs

\* the accumulators after a chunk is closed
ResetIdxs(idxs) == <<>>

PackCloseAndAdd ==
    /\ pc = "pack_loop"
    /\ seg_i <= Len(segments_list)
    /\ LET seg == segments_list[seg_i] IN
        /\ ShouldClose(seg)
        /\ merged_segments' = Append(merged_segments, ChunkRecord)
        /\ curr_start' = seg.start
        /\ curr_end' = seg.end
        /\ seg_idxs' = Append(ResetIdxs(seg_idxs), <<seg.start, seg.end>>)
        /\ speaker_idxs' = Append(ResetIdxs(speaker_idxs), seg.speaker)
    /\ seg_i' = seg_i + 1
    /\ UNCHANGED <<pc, result, segments_list, chunk_size,
                   binVars, vadVars, k, active>>

PackAdd ==
    /\ pc = "pack_loop"
    /\ seg_i <= Len(segments_list)
    /\ LET seg == segments_list[seg_i] IN
        /\ ~ShouldClose(seg)
        /\ curr_end' = seg.end
        /\ seg_idxs' = Append(seg_idxs, <<seg.start, seg.end>>)
        /\ speaker_idxs' = Append(speaker_idxs, seg.speaker)
    /\ seg_i' = seg_i + 1
    /\ UNCHANGED <<pc, result, segments_list, chunk_size, curr_start,
                   merged_segments, binVars, vadVars, k, active>>

PackFinal ==
    /\ pc = "pack_loop"
    /\ seg_i > Len(segments_list)
    /\ merged_segments' = Append(merged_segments, ChunkRecord)
    /\ pc' = "done"
    /\ result' = "returned"
    /\ UNCHANGED <<segments_list, chunk_size, seg_i, curr_start, curr_end,
                   seg_idxs, speaker_idxs, binVars, vadVars, k, active>>

NextPack ==
    \/ PackAssertFail
    \/ PackStart
    \/ PackCloseAndAdd
    \/ PackAdd
    \/ PackFinal

SpecPack == InitPack /\ [][NextPack]_vars


\* --------------------------------------------------------------- helpers
Min(a, b) == IF a <= b THEN a ELSE b
Max(a, b) == IF a >= b THEN a ELSE b

\* the order an Annotation keeps its entries in: by segment, then by track
EntryBefore(a, b) ==
    \/ a.start < b.start
    \/ a.start = b.start /\ a.end < b.end
    \/ a.start = b.start /\ a.end = b.end /\ a.track < b.track

RECURSIVE SortEntries(_)
SortEntries(S) ==
    IF S = {} THEN <<>>
    ELSE LET m == CHOOSE x \in S : \A y \in S : x = y \/ EntryBefore(x, y)
         IN <<m>> \o SortEntries(S \ {m})

Range(seq) == { seq[i] : i \in 1..Len(seq) }

\* Timeline.support(collar): sweep the sorted segments, joining a segment to
\* the one in progress when they touch, overlap or are less than collar apart
RECURSIVE Sweep(_, _, _, _)
Sweep(tl, i, cur, collar) ==
    IF i > Len(tl) THEN <<cur>>
    ELSE LET seg == tl[i]
             gap == Max(seg.start, cur.start) - Min(seg.end, cur.end)
         IN IF gap <= 0 \/ gap < collar
            THEN Sweep(tl, i + 1,
                       [cur EXCEPT !.start = Min(cur.start, seg.start),
                                   !.end = Max(cur.end, seg.end)], collar)
            ELSE <<cur>> \o Sweep(tl, i + 1, seg, collar)

TimelineSupport(tl, collar) ==
    IF tl = <<>> THEN <<>> ELSE Sweep(tl, 1, tl[1], collar)

\* Annotation.support(collar): label by label, the support of the label's
\* segments; the merged segments get fresh tracks
RECURSIVE SupportByLabel(_, _, _)
SupportByLabel(entries, labels, collar) ==
    IF labels = {} THEN <<>>
    ELSE LET l == CHOOSE x \in labels : \A y \in labels : x <= y
             own == { [e EXCEPT !.track = 0] : e \in {x \in entries : x.label = l} }
         IN TimelineSupport(SortEntries(own), collar)
            \o SupportByLabel(entries, labels \ {l}, collar)

AnnotationSupport(ann, collar) ==
    LET merged == SupportByLabel(Range(ann), { e.label : e \in Range(ann) }, collar)
    IN [i \in 1..Len(merged) |-> [merged[i] EXCEPT !.track = i - 1]]

\* del active[segment, track] for every track whose segment is too short
RECURSIVE DropShort(_, _)
DropShort(ann, min_on) ==
    IF ann = <<>> THEN <<>>
    ELSE LET rest == DropShort(Tail(ann), min_on)
         IN IF Head(ann).end - Head(ann).start < min_on
            THEN rest ELSE <<Head(ann)>> \o rest

\* the guard of the support step, shared by Binarize and merge_vad
NeedsSupport(p) ==
    p.pad_offset > 0 \/ p.pad_onset > 0 \/ p.min_duration_off > 0

\* ------------------------------------------------------ Binarize.__call__
Scores == 0..MaxScore

\* frames[i].middle: frame i of the sliding window, in frame steps
Timestamp(i) == i

\* Binarize.__init__: offset defaults to onset when it is None or 0
BinarizeObjects ==
    { [onset |-> 1,
       offset |-> IF off = 0 THEN 1 ELSE off,
       pad_onset |-> pon, pad_offset |-> poff,
       min_duration_on |-> mon, min_duration_off |-> moff,
       max_is_inf |-> inf, max_duration |-> IF inf THEN 0 ELSE md] :
      off \in {0, MaxScore}, pon \in 0..MaxPad, poff \in 0..MaxPad,
      mon \in {0, MaxMinOn}, moff \in {0, MaxCollar},
      inf \in BOOLEAN, md \in 1..MaxMaxDuration }

InitBin ==
    /\ pc = "bin_track"
    /\ result = "running"
    /\ self \in BinarizeObjects
    /\ num_frames \in 0..MaxFrames
    /\ num_classes \in 0..MaxTracks
    /\ k = 0
    /\ k_scores = <<>>
    /\ start = Unbound
    /\ is_active = FALSE
    /\ curr_scores = <<>>
    /\ curr_timestamps = <<>>
    /\ t = <<>>
    /\ active = <<>>
    /\ PackIdle /\ VadIdle

\* active[region, k] = label, with label = k: the region is stored as it was
\* built, whatever its bounds
Emit(ann, from, to) ==
    Append(ann, [track |-> k, label |-> k, start |-> from, end |-> to])

\* timestamps[0] on a grid without frames
BinIndexError ==
    /\ pc = "bin_track"
    /\ k < num_classes
    /\ num_frames = 0
    /\ pc' = "done"
    /\ result' = "IndexError"
    /\ UNCHANGED <<packVars, binVars, vadVars, k, active>>

\* initial state of track k
BinTrackStart ==
    /\ pc = "bin_track"
    /\ k < num_classes
    /\ num_frames > 0
    /\ \E y \in Scores :
        /\ k_scores' = <<y>>
        /\ is_active' = (y > self.onset)
        /\ curr_scores' = <<y>>
    /\ start' = Timestamp(0)
    /\ curr_timestamps' = <<Timestamp(0)>>
    /\ pc' = "bin_frame"
    /\ UNCHANGED <<result, packVars, vadVars, self, num_frames, num_classes,
                   t, k, active>>

\* search_after + np.argmin(curr_scores[search_after:]), as a 1-based position
MinScoreDivIdx(scores) ==
    LET search_after == Len(scores) \div 2
        cand == (search_after + 1)..Len(scores)
    IN CHOOSE p \in cand :
         /\ \A q \in cand : scores[p] <= scores[q]
         /\ \A q \in cand : q < p => scores[q] > scores[p]

TooLong(now) == ~self.max_is_inf /\ now - start > self.max_duration

\* one pass of the loop over zip(timestamps[1:], k_scores[1:]): the frame
\* read is frame Len(k_scores) with score y
BinForcedSplit ==
    /\ pc = "bin_frame"
    /\ Len(k_scores) < num_frames
    /\ is_active
    /\ TooLong(Timestamp(Len(k_scores)))
    /\ \E y \in Scores :
        LET now == Timestamp(Len(k_scores))
            idx == MinScoreDivIdx(curr_scores)
            min_score_t == curr_timestamps[idx]
        IN /\ active' = Emit(active, start - self.pad_onset,
                             min_score_t + self.pad_offset)
           /\ start' = min_score_t
           /\ curr_scores' =
                Append(SubSeq(curr_scores, idx + 1, Len(curr_scores)), y)
           /\ curr_timestamps' =
                Append(SubSeq(curr_timestamps, idx + 1, Len(curr_timestamps)), now)
           /\ t' = <<now>>
           /\ k_scores' = Append(k_scores, y)
    /\ UNCHANGED <<pc, result, packVars, vadVars, self, num_frames,
                   num_classes, is_active, k>>

BinOffset ==
    /\ pc = "bin_frame"
    /\ Len(k_scores) < num_frames
    /\ is_active
    /\ ~TooLong(Timestamp(Len(k_scores)))
    /\ \E y \in Scores :
        LET now == Timestamp(Len(k_scores)) IN
        /\ y < self.offset
        /\ active' = Emit(active, start - self.pad_onset, now + self.pad_offset)
        /\ start' = now
        /\ is_active' = FALSE
        /\ curr_scores' = <<y>>
        /\ curr_timestamps' = <<now>>
        /\ t' = <<now>>
        /\ k_scores' = Append(k_scores, y)
    /\ UNCHANGED <<pc, result, packVars, vadVars, self, num_frames,
                   num_classes, k>>

BinOnset ==
    /\ pc = "bin_frame"
    /\ Len(k_scores) < num_frames
    /\ ~is_active
    /\ \E y \in Scores :
        LET now == Timestamp(Len(k_scores)) IN
        /\ y > self.onset
        /\ start' = now
        /\ is_active' = TRUE
        /\ curr_scores' = Append(curr_scores, y)
        /\ curr_timestamps' = Append(curr_timestamps, now)
        /\ t' = <<now>>
        /\ k_scores' = Append(k_scores, y)
    /\ UNCHANGED <<pc, result, packVars, vadVars, self, num_frames,
                   num_classes, k, active>>

\* neither branch changes the state: only the buffers grow
BinHold ==
    /\ pc = "bin_frame"
    /\ Len(k_scores) < num_frames
    /\ \E y \in Scores :
        LET now == Timestamp(Len(k_scores)) IN
        /\ \/ is_active /\ ~TooLong(now) /\ ~(y < self.offset)
           \/ ~is_active /\ ~(y > self.onset)
        /\ curr_scores' = Append(curr_scores, y)
        /\ curr_timestamps' = Append(curr_timestamps, now)
        /\ t' = <<now>>
        /\ k_scores' = Append(k_scores, y)
    /\ UNCHANGED <<pc, result, packVars, vadVars, self, num_frames,
                   num_classes, start, is_active, k, active>>

\* after the loop: the final region of a track that is still active
BinFinalRegion ==
    /\ pc = "bin_frame"
    /\ Len(k_scores) = num_frames
    /\ is_active
    /\ t # <<>>
    /\ active' = Emit(active, start - self.pad_onset, t[1] + self.pad_offset)
    /\ k' = k + 1
    /\ pc' = "bin_track"
    /\ UNCHANGED <<result, packVars, binVars, vadVars>>

\* ... which reads t, a name the loop never bound on a one-frame grid
BinFinalUnbound ==
    /\ pc = "bin_frame"
    /\ Len(k_scores) = num_frames
    /\ is_active
    /\ t = <<>>
    /\ pc' = "done"
    /\ result' = "UnboundLocalError"
    /\ UNCHANGED <<packVars, binVars, vadVars, k, active>>

BinTrackEnd ==
    /\ pc = "bin_frame"
    /\ Len(k_scores) = num_frames
    /\ ~is_active
    /\ k' = k + 1
    /\ pc' = "bin_track"
    /\ UNCHANGED <<result, packVars, binVars, vadVars, active>>

\* after the loop over the tracks
BinNotImplemented ==
    /\ pc = "bin_track"
    /\ k >= num_classes
    /\ NeedsSupport(self)
    /\ ~self.max_is_inf
    /\ pc' = "done"
    /\ result' = "NotImplementedError"
    /\ UNCHANGED <<packVars, binVars, vadVars, k, active>>

BinSupport ==
    /\ pc = "bin_track"
    /\ k >= num_classes
    /\ NeedsSupport(self)
    /\ self.max_is_inf
    /\ active' = AnnotationSupport(active, self.min_duration_off)
    /\ pc' = "bin_filter"
    /\ UNCHANGED <<result, packVars, binVars, vadVars, k>>

BinNoSupport ==
    /\ pc = "bin_track"
    /\ k >= num_classes
    /\ ~NeedsSupport(self)
    /\ pc' = "bin_filter"
    /\ UNCHANGED <<result, packVars, binVars, vadVars, k, active>>

BinReturn ==
    /\ pc = "bin_filter"
    /\ active' = IF self.min_duration_on > 0
                 THEN DropShort(active, self.min_duration_on)
                 ELSE active
    /\ pc' = "done"
    /\ result' = "returned"
    /\ UNCHANGED <<packVars, binVars, vadVars, k>>

NextBin ==
    \/ BinIndexError
    \/ BinTrackStart
    \/ BinForcedSplit
    \/ BinOffset
    \/ BinOnset
    \/ BinHold
    \/ BinFinalRegion
    \/ BinFinalUnbound
    \/ BinTrackEnd
    \/ BinNotImplemented
    \/ BinSupport
    \/ BinNoSupport
    \/ BinReturn

SpecBin == InitBin /\ [][NextBin]_vars


\* ---------------------------------------------------------------- merge_vad
VadIntervals == { <<s, e>> : s \in 0..MaxTime, e \in 0..MaxTime }

VadInputs ==
    UNION { [1..n -> {v \in VadIntervals : v[1] < v[2]}] : n \in 0..MaxVad }

VadArgs ==
    [pad_onset : 0..MaxPad, pad_offset : 0..MaxPad,
     min_duration_off : 0..MaxCollar, min_duration_on : 0..MaxMinOn]

InitVad ==
    /\ pc = "vad_loop"
    /\ result = "running"
    /\ vad_arr \in VadInputs
    /\ args \in VadArgs
    /\ active_segs = <<>>
    /\ k = 0
    /\ active = <<>>
    /\ PackIdle /\ BinIdle

\* active[region, k] = 1 for interval k, padded
VadAdd ==
    /\ pc = "vad_loop"
    /\ k < Len(vad_arr)
    /\ LET vad_t == vad_arr[k + 1] IN
        active' = Append(active, [track |-> k, label |-> 1,
                                  start |-> vad_t[1] - args.pad_onset,
                                  end |-> vad_t[2] + args.pad_offset])
    /\ k' = k + 1
    /\ UNCHANGED <<pc, result, packVars, binVars, vadVars>>

VadSupport ==
    /\ pc = "vad_loop"
    /\ k = Len(vad_arr)
    /\ NeedsSupport(args)
    /\ active' = AnnotationSupport(active, args.min_duration_off)
    /\ pc' = "vad_filter"
    /\ UNCHANGED <<result, packVars, binVars, vadVars, k>>

VadNoSupport ==
    /\ pc = "vad_loop"
    /\ k = Len(vad_arr)
    /\ ~NeedsSupport(args)
    /\ pc' = "vad_filter"
    /\ UNCHANGED <<result, packVars, binVars, vadVars, k, active>>

\* for_json()['content']: the entries in the Annotation's order, segments only
ForJson(ann) ==
    LET sorted == SortEntries(Range(ann))
    IN [i \in 1..Len(sorted) |-> <<sorted[i].start, sorted[i].end>>]

VadReturn ==
    /\ pc = "vad_filter"
    /\ LET kept == IF args.min_duration_on > 0
                   THEN DropShort(active, args.min_duration_on)
                   ELSE active
       IN /\ active' = kept
          /\ active_segs' = ForJson(kept)
    /\ pc' = "done"
    /\ result' = "returned"
    /\ UNCHANGED <<packVars, binVars, vad_arr, args, k>>

NextVad ==
    \/ VadAdd
    \/ VadSupport
    \/ VadNoSupport
    \/ VadReturn

SpecVad == InitVad /\ [][NextVad]_vars


\* one call of any of the three routines
Init == InitPack \/ InitBin \/ InitVad
Next == NextPack \/ NextBin \/ NextVad
Spec == Init /\ [][Next]_vars

\* ================================================================ properties
Returned == pc = "done" /\ result = "returned"

InputPairs ==
    [i \in 1..Len(segments_list) |->
        <<segments_list[i].start, segments_list[i].end>>]

RECURSIVE FlattenSegments(_)
FlattenSegments(chunks) ==
    IF chunks = <<>> THEN <<>>
    ELSE Head(chunks).segments \o FlattenSegments(Tail(chunks))

\* the input is ordered by start and every segment has 0 <= start < end
OrderedInput ==
    /\ \A i \in 1..Len(segments_list) :
         0 <= segments_list[i].start
         /\ segments_list[i].start < segments_list[i].end
    /\ \A i, j \in 1..Len(segments_list) :
         i < j => segments_list[i].start <= segments_list[j].start

\* C1: when merge_chunks returns, the chunks' segments lists, concatenated in
\* chunk order, are exactly the input (start, end) pairs in input order;
\* while it runs, the closed chunks and the open accumulator together are
\* exactly the pairs read so far.
C1_FlattenReproducesInput ==
    /\ Returned => FlattenSegments(merged_segments) = InputPairs
    /\ pc = "pack_loop" =>
         FlattenSegments(merged_segments) \o seg_idxs
           = SubSeq(InputPairs, 1, seg_i - 1)

C1_Witness ==
    /\ Returned
    /\ Len(segments_list) = 3
    /\ Len(merged_segments) = 2
    /\ Len(merged_segments[1].segments) = 2
    /\ segments_list[1].start > segments_list[2].start

\* C2: for an input ordered by start with 0 <= start < end, a returned chunk
\* of more than one segment has end - start <= chunk_size, and a chunk with
\* end - start > chunk_size holds exactly one segment, itself longer than
\* chunk_size.
C2_ChunkWithinSize ==
    (Returned /\ OrderedInput) =>
        \A c \in Range(merged_segments) :
            /\ Len(c.segments) > 1 => c.end - c.start <= chunk_size
            /\ c.end - c.start > chunk_size =>
                 /\ Len(c.segments) = 1
                 /\ c.segments[1][2] - c.segments[1][1] > chunk_size

C2_Witness ==
    /\ Returned /\ OrderedInput
    /\ Len(merged_segments) = 2
    /\ Len(merged_segments[1].segments) = 2
    /\ merged_segments[1].end - merged_segments[1].start = chunk_size
    /\ merged_segments[1].segments[1][2] <= merged_segments[1].end
    /\ Len(merged_segments[2].segments) = 1
    /\ merged_segments[2].end - merged_segments[2].start > chunk_size

\* index in the input of the first segment of chunk n
RECURSIVE ChunkOffset(_, _)
ChunkOffset(chunks, n) ==
    IF n <= 1 THEN 0
    ELSE ChunkOffset(chunks, n - 1) + Len(chunks[n - 1].segments)

\* C3: every returned chunk record has a speakers list as long as its segments
\* list, whose i-th entry is the speaker of the input segment behind the i-th
\* entry of segments.
C3_SpeakersParallelSegments ==
    Returned =>
        \A n \in 1..Len(merged_segments) :
            LET c == merged_segments[n] IN
            /\ "speakers" \in DOMAIN c
            /\ Len(c.speakers) = Len(c.segments)
            /\ \A i \in 1..Len(c.segments) :
                 c.speakers[i] =
                   segments_list[ChunkOffset(merged_segments, n) + i].speaker

\* C9: with an empty segment list or chunk_size <= 0 merge_chunks builds no
\* chunk and ends in an assertion error; with a non-empty list and
\* chunk_size > 0 it returns at least one chunk.
C9_PreconditionsChecked ==
    /\ (segments_list = <<>> \/ chunk_size <= 0) =>
         /\ merged_segments = <<>>
         /\ pc \in {"pack_assert", "done"}
         /\ pc = "done" => result = "AssertionError"
    /\ (segments_list # <<>> /\ chunk_size > 0 /\ pc = "done") =>
         /\ result = "returned"
         /\ Len(merged_segments) >= 1

C9_Witness ==
    /\ pc = "done"
    /\ result = "AssertionError"
    /\ chunk_size = 0
    /\ Len(segments_list) = 2

\* C10: for an input ordered by start with 0 <= start < end (overlapping and
\* nested segments included), every returned chunk is non-empty and its
\* interval covers each of its segments.
C10_ChunkCoversSegments ==
    (Returned /\ OrderedInput) =>
        \A c \in Range(merged_segments) :
            /\ Len(c.segments) >= 1
            /\ \A i \in 1..Len(c.segments) :
                 c.start <= c.segments[i][1] /\ c.segments[i][2] <= c.end

\* the part of C10 the code keeps: chunks are non-empty and start at or before
\* each of their segments
ChunkStartsBeforeSegments ==
    (Returned /\ OrderedInput) =>
        \A c \in Range(merged_segments) :
            /\ Len(c.segments) >= 1
            /\ \A i \in 1..Len(c.segments) : c.start <= c.segments[i][1]

\* the configurations __call__ does not reject
Accepted == self.max_is_inf \/ ~NeedsSupport(self)

\* C4: under every accepted configuration, every segment Binarize emits has
\* 0 <= start < end.
C4_EmittedSegmentsWellFormed ==
    Accepted =>
        \A i \in 1..Len(active) :
            active[i].start < active[i].end /\ active[i].start >= 0

\* C5: with a finite max_duration and zero padding, no emitted segment is
\* longer than max_duration.
C5_MaxDurationRespected ==
    (~self.max_is_inf /\ self.pad_onset = 0 /\ self.pad_offset = 0) =>
        \A i \in 1..Len(active) :
            active[i].end - active[i].start <= self.max_duration

\* the hysteresis runs of a score column, from frame position i on (1-based):
\* a run opens at the first position whose score is above onset and closes at
\* the first later position whose score is below offset, or at the last frame
FirstAbove(col, i) ==
    LET S == { j \in i..Len(col) : col[j] > self.onset }
    IN IF S = {} THEN 0 ELSE CHOOSE j \in S : \A m \in S : j <= m

FirstBelow(col, i) ==
    LET S == { j \in i..Len(col) : col[j] < self.offset }
    IN IF S = {} THEN 0 ELSE CHOOSE j \in S : \A m \in S : j <= m

RECURSIVE HysteresisRuns(_, _)
HysteresisRuns(col, i) ==
    LET a == FirstAbove(col, i) IN
    IF a = 0 THEN <<>>
    ELSE LET b == FirstBelow(col, a + 1) IN
         IF b = 0 THEN << <<Timestamp(a - 1), Timestamp(Len(col) - 1)>> >>
         ELSE << <<Timestamp(a - 1), Timestamp(b - 1)>> >>
              \o HysteresisRuns(col, b + 1)

\* the segments emitted for a track, in emission order
RECURSIVE TrackSegments(_, _)
TrackSegments(ann, track) ==
    IF ann = <<>> THEN <<>>
    ELSE (IF Head(ann).track = track
          THEN << <<Head(ann).start, Head(ann).end>> >> ELSE <<>>)
         \o TrackSegments(Tail(ann), track)

PlainHysteresis ==
    /\ self.max_is_inf
    /\ self.pad_onset = 0 /\ self.pad_offset = 0
    /\ self.min_duration_on = 0 /\ self.min_duration_off = 0

\* a track whose whole column has been read: the loop over it has ended, in
\* the step to the next track or in an exception
TrackOver(track) ==
    /\ Len(k_scores) = num_frames
    /\ num_frames > 0
    /\ \/ pc = "bin_track" /\ track = k - 1
       \/ pc = "done" /\ result = "UnboundLocalError" /\ track = k

RunsEmitted(track) ==
    LET segs == TrackSegments(active, track) IN
    /\ segs = HysteresisRuns(k_scores, 1)
    /\ \A i, j \in 1..Len(segs) : i < j => segs[i][2] <= segs[j][1]

\* C7: with max_duration infinite, zero padding and zero minimum durations,
\* the segments emitted for a track are exactly the hysteresis runs of its
\* score column, in increasing time order and without overlap.
C7_SegmentsAreHysteresisRuns ==
    PlainHysteresis =>
        \A track \in 0..MaxTracks : TrackOver(track) => RunsEmitted(track)

\* C7 on the grids where the loop body runs at least once
RunsEmittedFromTwoFrames ==
    (PlainHysteresis /\ num_frames >= 2) =>
        \A track \in 0..MaxTracks : TrackOver(track) => RunsEmitted(track)

\* C8: on a grid with no frames or no tracks Binarize never returns.
C8_EmptyGridRejected ==
    (num_frames = 0 \/ num_classes = 0) =>
        /\ result # "returned"
        /\ pc = "done" => result \in {"IndexError", "NotImplementedError"}

\* C6: merge_vad's output has no two overlapping segments, and consecutive
\* output segments are at least min_duration_off apart, whatever the
\* parameters.
C6_OutputMergedAlways ==
    Returned =>
        /\ \A i, j \in 1..Len(active_segs) :
             i < j => active_segs[i][2] <= active_segs[j][1]
        /\ \A i \in 1..(Len(active_segs) - 1) :
             active_segs[i + 1][1] - active_segs[i][2] >= args.min_duration_off

\* what merge_vad does when one of the padding or collar parameters is set
OutputMergedWhenSupportRuns ==
    (Returned /\ NeedsSupport(args)) =>
        /\ \A i, j \in 1..Len(active_segs) :
             i < j => active_segs[i][2] < active_segs[j][1]
        /\ \A i \in 1..(Len(active_segs) - 1) :
             active_segs[i + 1][1] - active_segs[i][2] >= args.min_duration_off

=============================================================================
